---- MODULE Spec2Model ----
(***************************************************************************)
(* A model of the OPA REST client of src/src/index.ts: the constructor,    *)
(* the private request executor (header composition, optional gzip         *)
(* compression, dispatch through fetch, response interpretation and error  *)
(* shaping) and the API methods that call it.                               *)
(*                                                                         *)
(* Conventions.                                                            *)
(*  - A URL or path is a sequence of tokens: the characters that the code   *)
(*    or the URL syntax treats specially ("/", "?", "&", "=", ":", "#")    *)
(*    are tokens of their own, every other token is a run of ordinary      *)
(*    characters.  Concatenation of strings is concatenation of sequences. *)
(*  - A plain JavaScript object used as a header record is a sequence of   *)
(*    <<key, value>> pairs with distinct keys, in insertion order.         *)
(*  - An optional value is <<>> (undefined / null) or <<v>>.               *)
(*  - A JSON value is a record tagged by its field type.                   *)
(*  - An error message built by a template literal is the sequence of the  *)
(*    pieces the template concatenates.                                    *)
(***************************************************************************)
EXTENDS Integers, Sequences, FiniteSets, TLC

\* ------------------------------------------------------------------ bounds
MaxCalls == 2             \* API invocations in one behaviour
MaxConfigHeaders == 1     \* entries of the configuration's header record
MaxTrailingSlashes == 2   \* trailing slashes of the baseUrl given to the constructor

VARIABLES
    config,      \* this._config: [baseUrl, headers]
    hasCS,       \* whether the global CompressionStream is defined right now
    calls,       \* the runs of request(), one per API invocation, in invocation order
    inflight,    \* the requests handed to fetch that the transport has not settled
    server       \* the OPA server: the policies it stores, the bodies it has sent

vars == <<config, hasCS, calls, inflight, server>>

\* The fields of the records of the model, each with the value of the program
\* that it holds.
Fields ==
    [ alias      |-> "the alias method a call was made through, if any",
      api        |-> "the API method that was called",
      args       |-> "the arguments the API method was called with",
      baseUrl    |-> "config.baseUrl",
      body       |-> "RequestInit.body",
      bytes      |-> "the bytes a stream of the caller yields",
      call       |-> "the invocation of request() that issued a fetch",
      cause      |-> "Error.cause",
      duplex     |-> "RequestInit.duplex",
      endpoint   |-> "the endpoint argument of request()",
      entries    |-> "the members of a JSON object or array",
      error      |-> "the rejection reason of a promise",
      fetches    |-> "the number of fetch() calls of an invocation",
      gzip       |-> "the text a compressed stream was made from",
      headers    |-> "config.headers, RequestInit.headers",
      init       |-> "the second argument of fetch()",
      kind       |-> "how an awaited promise settled",
      message    |-> "Error.message",
      method     |-> "RequestInit.method",
      name       |-> "Error.name",
      options    |-> "the options argument of request()",
      pc         |-> "the await an invocation is suspended at",
      policies   |-> "the policy modules the server stores, by request path",
      raw        |-> "the stored request body a response was made from",
      read       |-> "the outcome of response.text()",
      response   |-> "the outcome of fetch()",
      result     |-> "the promise request() returned",
      sent       |-> "the response bodies the server has sent, by call",
      seq        |-> "the position of a fetch among those of its invocation",
      state      |-> "the state of a promise",
      status     |-> "Response.status",
      statusText |-> "Response.statusText",
      text       |-> "the body text of a response",
      type       |-> "typeof a value",
      url        |-> "the first argument of fetch()",
      value      |-> "the value of a JSON scalar or of a fulfilled promise" ]

None == <<>>
Some(x) == <<x>>

\* ---------------------------------------------------------- JSON values
\* An object is its entries <<key, value>>, in insertion order.
JObject(e) == [entries |-> e, type |-> "object"]
JArray(e) == [entries |-> e, type |-> "array"]
JString(s) == [type |-> "string", value |-> s]
JBool(b) == [type |-> "boolean", value |-> b]
JNumber(n) == [type |-> "number", value |-> n]
JNull == [type |-> "null"]
EmptyFcn == [x \in {} |-> x]
EmptyObject == JObject(<<>>)

\* j[k] for a JSON value that is not null: <<>> when it is undefined.
Field(j, k) ==
    IF j.type = "object" /\ \E i \in DOMAIN j.entries : j.entries[i][1] = k
    THEN Some(j.entries[CHOOSE i \in DOMAIN j.entries : j.entries[i][1] = k][2])
    ELSE None

\* The response bodies the server side of the model can produce.
BodyTexts ==
    { "", "{}", "true", "\"ok\"", "null", "not json",
      "{\"message\":\"denied\"}",
      "{\"message\":\"\"}",
      "{\"code\":\"internal_error\",\"message\":\"boom\"}",
      "{\"code\":\"undefined_document\"}" }

\* JSON.parse on those texts: <<value>>, or <<>> where it throws a SyntaxError.
JSONparse(text) ==
    CASE text = "{}" -> Some(EmptyObject)
      [] text = "true" -> Some(JBool(TRUE))
      [] text = "\"ok\"" -> Some(JString("ok"))
      [] text = "null" -> Some(JNull)
      [] text = "{\"message\":\"denied\"}" ->
            Some(JObject(<< <<"message", JString("denied")>> >>))
      [] text = "{\"message\":\"\"}" ->
            Some(JObject(<< <<"message", JString("")>> >>))
      [] text = "{\"code\":\"internal_error\",\"message\":\"boom\"}" ->
            Some(JObject(<< <<"code", JString("internal_error")>>,
                            <<"message", JString("boom")>> >>))
      [] text = "{\"code\":\"undefined_document\"}" ->
            Some(JObject(<< <<"code", JString("undefined_document")>> >>))
      [] text = "{\"code\":\"resource_not_found\"}" ->
            Some(JObject(<< <<"code", JString("resource_not_found")>> >>))
      [] text = "{\"result\":{\"raw\":\"\"}}" ->
            Some(JObject(<< <<"result", JObject(<< <<"raw", JString("")>> >>)>> >>))
      [] text = "{\"result\":{\"raw\":\"package test\"}}" ->
            Some(JObject(<< <<"result",
                            JObject(<< <<"raw", JString("package test")>> >>)>> >>))
      [] text = "{\"result\":{\"raw\":\"(gzip bytes)\"}}" ->
            Some(JObject(<< <<"result",
                            JObject(<< <<"raw", JString("(gzip bytes)")>> >>)>> >>))
      [] OTHER -> None

\* JavaScript truthiness of a JSON value.
Truthy(j) ==
    CASE j.type \in {"object", "array"} -> TRUE
      [] j.type = "string" -> j.value # ""
      [] j.type = "boolean" -> j.value
      [] j.type = "number" -> j.value # 0
      [] OTHER -> FALSE

\* String(j), as a template literal interpolates it.
ToStr(j) ==
    CASE j.type = "string" -> j.value
      [] j.type = "boolean" -> IF j.value THEN "true" ELSE "false"
      [] j.type = "number" -> ToString(j.value)
      [] j.type = "null" -> "null"
      [] OTHER -> "[object Object]"

\* JSON.stringify(j): <<text>>, or <<>> (undefined) when j is undefined.
\* An entry whose value is undefined is left out of an object.
RECURSIVE JSONtext(_), JSONentries(_, _), JSONitems(_, _)
JSONtext(j) ==
    CASE j.type = "string" -> "\"" \o j.value \o "\""
      [] j.type = "number" -> ToString(j.value)
      [] j.type = "boolean" -> IF j.value THEN "true" ELSE "false"
      [] j.type = "object" -> "{" \o JSONentries(j.entries, TRUE) \o "}"
      [] j.type = "array" -> "[" \o JSONitems(j.entries, TRUE) \o "]"
      [] OTHER -> "null"
JSONentries(e, first) ==
    IF e = <<>> THEN ""
    ELSE IF Head(e)[2].type = "undefined" THEN JSONentries(Tail(e), first)
    ELSE (IF first THEN "" ELSE ",") \o "\"" \o Head(e)[1] \o "\":"
            \o JSONtext(Head(e)[2]) \o JSONentries(Tail(e), FALSE)
JSONitems(e, first) ==
    IF e = <<>> THEN ""
    ELSE (IF first THEN "" ELSE ",")
            \o (IF Head(e).type = "undefined" THEN "null" ELSE JSONtext(Head(e)))
            \o JSONitems(Tail(e), FALSE)

JSONstringify(j) == IF j.type = "undefined" THEN None ELSE Some(JSONtext(j))

\* The text of JSON.stringify(j) as URL tokens: each of { } [ ] " : , is a
\* token of its own, every other token is a run of ordinary characters.
RECURSIVE JSONtokens(_), JSONentryTokens(_, _), JSONitemTokens(_, _)
JSONtokens(j) ==
    CASE j.type = "string" ->
            <<"\"">> \o (IF j.value = "" THEN <<>> ELSE <<j.value>>) \o <<"\"">>
      [] j.type = "number" -> <<ToString(j.value)>>
      [] j.type = "boolean" -> IF j.value THEN <<"true">> ELSE <<"false">>
      [] j.type = "object" -> <<"{">> \o JSONentryTokens(j.entries, TRUE) \o <<"}">>
      [] j.type = "array" -> <<"[">> \o JSONitemTokens(j.entries, TRUE) \o <<"]">>
      [] OTHER -> <<"null">>
JSONentryTokens(e, first) ==
    IF e = <<>> THEN <<>>
    ELSE IF Head(e)[2].type = "undefined" THEN JSONentryTokens(Tail(e), first)
    ELSE (IF first THEN <<>> ELSE <<",">>) \o <<"\"", Head(e)[1], "\"", ":">>
            \o JSONtokens(Head(e)[2]) \o JSONentryTokens(Tail(e), FALSE)
JSONitemTokens(e, first) ==
    IF e = <<>> THEN <<>>
    ELSE (IF first THEN <<>> ELSE <<",">>)
            \o (IF Head(e).type = "undefined" THEN <<"null">> ELSE JSONtokens(Head(e)))
            \o JSONitemTokens(Tail(e), FALSE)

\* The string a sequence of tokens spells.
RECURSIVE Join(_)
Join(toks) == IF toks = <<>> THEN "" ELSE Head(toks) \o Join(Tail(toks))

\* ------------------------------------------------- header records, Headers
\* obj[key] = value on a plain object: replaces in place or appends.
Assign(obj, k, v) ==
    IF \E i \in DOMAIN obj : obj[i][1] = k
    THEN [i \in DOMAIN obj |-> IF obj[i][1] = k THEN <<k, v>> ELSE obj[i]]
    ELSE Append(obj, <<k, v>>)

\* {...obj, ...src}
RECURSIVE Spread(_, _)
Spread(obj, src) ==
    IF src = <<>> THEN obj
    ELSE Spread(Assign(obj, Head(src)[1], Head(src)[2]), Tail(src))

\* Header names are byte-lowercased by the Headers class.
Lower(name) ==
    CASE name = "Accept" -> "accept"
      [] name = "Accept-Encoding" -> "accept-encoding"
      [] name = "Authorization" -> "authorization"
      [] name = "Content-Type" -> "content-type"
      [] name = "Content-Encoding" -> "content-encoding"
      [] name = "If-None-Match" -> "if-none-match"
      [] OTHER -> name

\* A Headers object is a function from lowercased names to combined values.
HeadersAppend(h, name, value) ==
    LET n == Lower(name) IN
    [x \in DOMAIN h \cup {n} |->
        IF x # n THEN h[x]
        ELSE IF n \in DOMAIN h THEN h[n] \o ", " \o value ELSE value]

HeadersSet(h, name, value) ==
    LET n == Lower(name) IN
    [x \in DOMAIN h \cup {n} |-> IF x = n THEN value ELSE h[x]]

HeadersGet(h, name) ==
    IF Lower(name) \in DOMAIN h THEN Some(h[Lower(name)]) ELSE None

\* new Headers(record): every entry of the record is appended, in order.
RECURSIVE HeadersFill(_, _)
HeadersFill(h, obj) ==
    IF obj = <<>> THEN h
    ELSE HeadersFill(HeadersAppend(h, Head(obj)[1], Head(obj)[2]), Tail(obj))

NewHeaders(obj) == HeadersFill(EmptyFcn, obj)

\* ------------------------------------------------------------ constructor
StripOneTrailingSlash(s) ==
    IF s # <<>> /\ s[Len(s)] = "/" THEN SubSeq(s, 1, Len(s) - 1) ELSE s

RECURSIVE StripTrailingSlashes(_)
StripTrailingSlashes(s) ==
    IF s # <<>> /\ s[Len(s)] = "/"
    THEN StripTrailingSlashes(SubSeq(s, 1, Len(s) - 1))
    ELSE s

Constructor(cfg) ==
    [cfg EXCEPT !.baseUrl = StripTrailingSlashes(cfg.baseUrl)]

Origin == <<"http", ":", "/", "/", "localhost", ":", "8181">>

RECURSIVE Slashes(_)
Slashes(n) == IF n = 0 THEN <<>> ELSE <<"/">> \o Slashes(n - 1)

BaseUrls == { Origin \o Slashes(n) : n \in 0..MaxTrailingSlashes }

ConfigHeaderEntries ==
    { <<"Authorization", "Bearer secret-token">>,
      <<"Accept", "text/html">>,
      <<"accept", "text/html">>,
      <<"Accept-Encoding", "identity">>,
      <<"Content-Type", "application/json">>,
      <<"content-type", "text/plain">>,
      <<"Content-Encoding", "identity">> }

\* The header records a caller can configure: distinct keys, any order.
ConfigHeaders ==
    { s \in UNION { [1..n -> ConfigHeaderEntries] : n \in 0..MaxConfigHeaders } :
        \A i, j \in DOMAIN s : i # j => s[i][1] # s[j][1] }

\* `new OPAClient()`: the default parameter of the constructor.
DefaultConfig == [baseUrl |-> Origin, headers |-> <<>>]

\* The client of the test suite's authorization test.
AuthConfig ==
    [baseUrl |-> Origin, headers |-> << <<"Authorization", "Bearer secret-token">> >>]

\* A server that stores no policy and has sent nothing.
NoServerState == [policies |-> <<>>, sent |-> {}]

\* A client constructed with the default or the authorization configuration.
Init ==
    /\ config \in { Constructor(DefaultConfig), Constructor(AuthConfig) }
    /\ hasCS \in BOOLEAN
    /\ calls = <<>>
    /\ inflight = {}
    /\ server = NoServerState

\* A client constructed with any configuration within the bounds.
InitRequest ==
    /\ \E b \in BaseUrls, h \in ConfigHeaders :
          config = Constructor([baseUrl |-> b, headers |-> h])
    /\ hasCS \in BOOLEAN
    /\ calls = <<>>
    /\ inflight = {}
    /\ server = NoServerState

\* ------------------------------------------------------- request executor
Undefined == [type |-> "undefined"]
StringBody(s) == [type |-> "string", value |-> s]
\* The ReadableStream obtained by piping the encoded text through gzip.
GzipStream(s) == [gzip |-> s, type |-> "stream"]

\* gzip(text): the text itself when CompressionStream is undefined.
gzip(text) == IF ~hasCS THEN StringBody(text) ELSE GzipStream(text)

\* `body &&` of the condition that guards compression.
BodyTruthy(body) == body.type = "stream" \/ (body.type = "string" /\ body.value # "")

\* The layers in another order: the configuration last but for the call's own.
ComposeHeadersConfigOverBuiltIn(options) ==
    NewHeaders(
        Spread(
            Spread(
                Spread(<<>>,
                       << <<"Accept", "application/json">>, <<"Accept-Encoding", "gzip">> >>),
                config.headers),
            options.headers))

ComposeHeaders(options) ==
    NewHeaders(
        Spread(
            Spread(
                Spread(<<>>, config.headers),
                << <<"Accept", "application/json">>, <<"Accept-Encoding", "gzip">> >>),
            options.headers))

\* The condition without the JSON Patch media type.
WantsCompressionJsonOnly(body, headers) ==
    /\ BodyTruthy(body)
    /\ body.type = "string"
    /\ HeadersGet(headers, "Content-Type") = Some("application/json")

WantsCompression(body, headers) ==
    /\ BodyTruthy(body)
    /\ body.type = "string"
    /\ \/ HeadersGet(headers, "Content-Type") = Some("application/json")
       \/ HeadersGet(headers, "Content-Type") = Some("application/json-patch+json")

\* The streaming option given whenever compression is asked for, whatever
\* gzip() returned, and then only.
requestDuplexWhenEligible(endpoint, options) ==
    LET url == config.baseUrl \o endpoint
        headers == ComposeHeaders(options)
        compressed == IF WantsCompression(options.body, headers)
                      THEN gzip(options.body.value) ELSE options.body
        replaced == WantsCompression(options.body, headers) /\ compressed.type # "string"
        body == IF replaced THEN compressed ELSE options.body
        sent == IF replaced THEN HeadersSet(headers, "Content-Encoding", "gzip")
                ELSE headers
    IN [init |-> [body |-> body,
                  duplex |-> IF WantsCompression(options.body, headers)
                             THEN Some("half") ELSE None,
                  headers |-> sent,
                  method |-> options.method],
        url |-> url]

\* The arguments of the one fetch call of request(endpoint, options).
request(endpoint, options) ==
    LET url == config.baseUrl \o endpoint
        headers == ComposeHeaders(options)
        compressed == IF WantsCompression(options.body, headers)
                      THEN gzip(options.body.value) ELSE options.body
        replaced == WantsCompression(options.body, headers) /\ compressed.type # "string"
        body == IF replaced THEN compressed ELSE options.body
        sent == IF replaced THEN HeadersSet(headers, "Content-Encoding", "gzip")
                ELSE headers
    IN [init |-> [body |-> body,
                  duplex |-> IF body.type = "stream" THEN Some("half") ELSE None,
                  headers |-> sent,
                  method |-> options.method],
        url |-> url]

\* this._config once request(endpoint, options) has run up to fetch, had it
\* composed the headers in the record of the configuration itself.
ConfigAfterRequestShared(options) ==
    [config EXCEPT !.headers =
        Spread(Spread(config.headers,
                      << <<"Accept", "application/json">>, <<"Accept-Encoding", "gzip">> >>),
               options.headers)]

\* this._config once request(endpoint, options) has run up to fetch: the
\* spread and new Headers() copy the header record, and url, headers and body
\* are locals.
ConfigAfterRequest(options) == config

Options(method, headers, body) ==
    [body |-> body, headers |-> headers, method |-> method]

\* `options: RequestInit = {}`
NoOptions == Options(None, <<>>, Undefined)

\* ------------------------------------------------------------- transport
Statuses == {200, 204, 404, 500}

StatusText(status) ==
    CASE status = 200 -> "OK"
      [] status = 204 -> "No Content"
      [] status = 404 -> "Not Found"
      [] OTHER -> "Internal Server Error"

\* Response.ok
Ok(status) == status \in 200..299

\* What fetch rejects with when no response is obtained.
TransportErrors ==
    { [cause |-> None, message |-> <<"fetch failed">>, name |-> "TypeError"],
      [cause |-> None, message |-> <<"The operation was aborted due to timeout">>,
       name |-> "TimeoutError"] }

\* What response.text() rejects with when the body cannot be read.
BodyReadErrors ==
    { [cause |-> None, message |-> <<"terminated">>, name |-> "TypeError"] }

\* What JSON.parse throws.
SyntaxError ==
    [cause |-> None, message |-> <<"Unexpected token in JSON">>, name |-> "SyntaxError"]

\* ------------------------------------------------------ response handling
Pending == [state |-> "pending"]
Fulfilled(v) == [state |-> "fulfilled", value |-> v]
Rejected(e) == [error |-> e, state |-> "rejected"]

\* The message without the status text.
BaseMessageStatusOnly(status, statusText) ==
    <<"OPA request failed: ", ToString(status)>>

BaseMessage(status, statusText) ==
    <<"OPA request failed: ", ToString(status), " ", statusText>>

\* The error path without the appended server message.
ErrorPartsBaseOnly(status, statusText, read) ==
    [cause |-> IF read = None \/ read[1] = "" THEN None ELSE JSONparse(read[1]),
     message |-> BaseMessage(status, statusText)]

\* The error path that appends the server's code as well as its message.
ErrorPartsWithCode(status, statusText, read) ==
    LET p == ErrorPartsBaseOnly(status, statusText, read)
        part(k) == IF p.cause = None \/ p.cause[1].type = "null"
                      \/ Field(p.cause[1], k) = None \/ ~Truthy(Field(p.cause[1], k)[1])
                   THEN <<>> ELSE <<" - ", ToStr(Field(p.cause[1], k)[1])>>
    IN [p EXCEPT !.message = @ \o part("code") \o part("message")]

\* The try block of the error path, given what response.text() did: `read` is
\* <<text>>, or <<>> when reading the body threw.  Yields message and cause.
ErrorParts(status, statusText, read) ==
    LET base == BaseMessage(status, statusText)
        parsed == IF read = None \/ read[1] = "" THEN None ELSE JSONparse(read[1])
        msg == IF parsed = None \/ parsed[1].type = "null" THEN None
               ELSE Field(parsed[1], "message")
    IN [cause |-> parsed,
        message |-> IF msg # None /\ Truthy(msg[1])
                    THEN base \o <<" - ", ToStr(msg[1])>> ELSE base]

\* throw new Error(message, {cause})
HttpError(status, statusText, read) ==
    LET p == ErrorParts(status, statusText, read)
    IN [cause |-> p.cause, message |-> p.message, name |-> "Error"]

\* JSON.parse(text) whatever the text: the empty text does not parse.
SuccessResultAlwaysParse(text) ==
    IF JSONparse(text) = None THEN Rejected(SyntaxError)
    ELSE Fulfilled(JSONparse(text)[1])

\* A body that does not parse taken for an empty one.
SuccessResultLenient(text) ==
    IF text = "" \/ JSONparse(text) = None THEN Fulfilled(EmptyObject)
    ELSE Fulfilled(JSONparse(text)[1])

\* return text ? JSON.parse(text) : {}
SuccessResult(text) ==
    IF text = "" THEN Fulfilled(EmptyObject)
    ELSE IF JSONparse(text) = None THEN Rejected(SyntaxError)
    ELSE Fulfilled(JSONparse(text)[1])

\* The rejection caught and wrapped into an error of the client.
FetchRejectionWrapped(err) ==
    Rejected([cause |-> Some(err),
              message |-> <<"OPA request failed: ">> \o err.message,
              name |-> "Error"])

\* `await fetch(...)` when the transport rejects: the rejection is not caught.
FetchRejection(err) == Rejected(err)

\* ------------------------------------------------------------- API calls
\* The fetch invocations of one run of request(): the single call of line 319.
\* The same request handed to fetch twice.
IssuedFetchesTwice(id, method, req) ==
    << [alias |-> method.alias, api |-> method.api, args |-> method.args, call |-> id,
        endpoint |-> method.endpoint, init |-> req.init,
        options |-> method.options, seq |-> 1, url |-> req.url],
       [alias |-> method.alias, api |-> method.api, args |-> method.args, call |-> id,
        endpoint |-> method.endpoint, init |-> req.init,
        options |-> method.options, seq |-> 2, url |-> req.url] >>

\* Each is the call (api, args, endpoint, options) with what fetch was given.
IssuedFetches(id, method, req) ==
    << [alias |-> method.alias, api |-> method.api, args |-> method.args, call |-> id,
        endpoint |-> method.endpoint, init |-> req.init,
        options |-> method.options, seq |-> 1, url |-> req.url] >>

Range(seq) == { seq[k] : k \in DOMAIN seq }

\* An API method calls request() once; its synchronous part runs up to the
\* await of fetch.
StartWithin(method, max) ==
    LET id == Len(calls) + 1
        issued == IssuedFetches(id, method, request(method.endpoint, method.options))
    IN /\ Len(calls) < max
       /\ calls' = Append(calls, [alias |-> method.alias, fetches |-> Len(issued),
                                  pc |-> "fetch", read |-> None,
                                  response |-> None, result |-> Pending])
       /\ inflight' = inflight \cup Range(issued)
       /\ config' = ConfigAfterRequest(method.options)
       /\ UNCHANGED <<hasCS, server>>

Start(method) == StartWithin(method, MaxCalls)

\* encodeURIComponent, token by token.
EncodeToken(tok) ==
    CASE tok = "/" -> "%2F"
      [] tok = ":" -> "%3A"
      [] tok = "?" -> "%3F"
      [] tok = "#" -> "%23"
      [] tok = "&" -> "%26"
      [] tok = "=" -> "%3D"
      [] tok = " " -> "%20"
      [] OTHER -> tok

encodeURIComponent(s) == [i \in DOMAIN s |-> EncodeToken(s[i])]

\* URLSearchParams: a sequence of <<name, value>>, each value the tokens of a
\* string; set() replaces or appends, append() always appends.
ParamsSet(params, k, v) == Assign(params, k, v)
ParamsAppend(params, k, v) == Append(params, <<k, v>>)

\* The application/x-www-form-urlencoded byte serializer, token by token:
\* letters, digits and * - . _ stay, a space becomes +, the rest is
\* percent-encoded.
FormEncodeToken(tok) ==
    CASE tok = "{" -> "%7B"
      [] tok = "}" -> "%7D"
      [] tok = "[" -> "%5B"
      [] tok = "]" -> "%5D"
      [] tok = "\"" -> "%22"
      [] tok = "," -> "%2C"
      [] tok = "/" -> "%2F"
      [] tok = ":" -> "%3A"
      [] tok = "?" -> "%3F"
      [] tok = "#" -> "%23"
      [] tok = "&" -> "%26"
      [] tok = "=" -> "%3D"
      [] tok = " " -> "+"
      [] OTHER -> tok

FormEncode(s) == [i \in DOMAIN s |-> FormEncodeToken(s[i])]

\* URLSearchParams.prototype.toString(), as a template literal interpolates it.
RECURSIVE ParamsToString(_)
ParamsToString(params) ==
    IF params = <<>> THEN <<>>
    ELSE <<Head(params)[1], "=">> \o FormEncode(Head(params)[2])
            \o (IF Tail(params) = <<>> THEN <<>> ELSE <<"&">>)
            \o ParamsToString(Tail(params))

\* `if (on) params.set(k, 'true')`
Flag(params, on, k) == IF on THEN ParamsSet(params, k, <<"true">>) ELSE params

\* An optional boolean argument: omitted, false or true. `if (flag)` and the
\* default `= false` treat the first two alike.
Flags == { None, Some(FALSE), Some(TRUE) }
Passed == { Some(FALSE), Some(TRUE) }
OnWhenPassed(flag) == flag # None
On(flag) == flag = Some(TRUE)

\* The optional argument explain: `if (explain)` is the truthiness of a string.
Explains == { None, Some("notes"), Some("fails"), Some("full"), Some("debug") }
Provided(explain) == explain # None /\ explain[1] # ""
ExplainAsFlag(params, explain) ==
    IF Provided(explain) THEN ParamsSet(params, "explain", <<"true">>) ELSE params
Explain(params, explain) ==
    IF Provided(explain) THEN ParamsSet(params, "explain", <<explain[1]>>) ELSE params

\* What an API method hands to request(), with the call it was made by.
Method(api, args, endpoint, options) ==
    [alias |-> None, api |-> api, args |-> args, endpoint |-> endpoint,
     options |-> options]

\* The same hand-over, the API method having been called through an alias.
Called(alias, method) == [method EXCEPT !.alias = Some(alias)]

BodyOf(text) == IF text = None THEN Undefined ELSE StringBody(text[1])

JsonRequest(method, text) ==
    Options(Some(method), << <<"Content-Type", "application/json">> >>, BodyOf(text))

\* ---- policy
policy_list ==
    Method("policy.list", <<>>, <<"/", "v1", "/", "policies">>, NoOptions)

policy_getUnencoded(id, pretty) ==
    Method("policy.get", << <<"id", id>>, <<"pretty", pretty>> >>,
           <<"/", "v1", "/", "policies", "/">> \o id \o <<"?">>
               \o ParamsToString(Flag(<<>>, On(pretty), "pretty")),
           NoOptions)

policy_get(id, pretty) ==
    Method("policy.get", << <<"id", id>>, <<"pretty", pretty>> >>,
           <<"/", "v1", "/", "policies", "/">> \o encodeURIComponent(id) \o <<"?">>
               \o ParamsToString(Flag(<<>>, On(pretty), "pretty")),
           NoOptions)

policy_put(id, rego, pretty, metrics) ==
    Method("policy.put",
           << <<"id", id>>, <<"rego", rego>>, <<"pretty", pretty>>, <<"metrics", metrics>> >>,
           <<"/", "v1", "/", "policies", "/">> \o encodeURIComponent(id) \o <<"?">>
               \o ParamsToString(Flag(Flag(<<>>, On(pretty), "pretty"),
                                      On(metrics), "metrics")),
           Options(Some("PUT"), << <<"Content-Type", "text/plain">> >>, StringBody(rego)))

\* `(...args) => this.policy.put(...args)`
policy_createOwnCopy(id, rego, pretty, metrics) ==
    Called("policy.create",
        Method("policy.put",
               << <<"id", id>>, <<"rego", rego>>, <<"pretty", pretty>>,
                  <<"metrics", metrics>> >>,
               <<"/", "v1", "/", "policies", "/">> \o encodeURIComponent(id) \o <<"?">>
                   \o ParamsToString(Flag(<<>>, On(pretty), "pretty")),
               Options(Some("PUT"), << <<"Content-Type", "text/plain">> >>,
                       StringBody(rego))))

policy_create(id, rego, pretty, metrics) ==
    Called("policy.create", policy_put(id, rego, pretty, metrics))
policy_update(id, rego, pretty, metrics) ==
    Called("policy.update", policy_put(id, rego, pretty, metrics))

policy_delete(id, pretty, metrics) ==
    Method("policy.delete",
           << <<"id", id>>, <<"pretty", pretty>>, <<"metrics", metrics>> >>,
           <<"/", "v1", "/", "policies", "/">> \o encodeURIComponent(id) \o <<"?">>
               \o ParamsToString(Flag(Flag(<<>>, On(pretty), "pretty"),
                                      On(metrics), "metrics")),
           Options(Some("DELETE"), <<>>, Undefined))

\* ---- data
\* The six optional parameters data.get and data.post share, in the order the
\* code sets them; o is the options object as <<pretty, provenance, explain,
\* metrics, instrument, strictBuiltinErrors>>.
EvalParamsExplainLast(params, o) ==
    Explain(Flag(Flag(Flag(Flag(Flag(params, On(o[1]), "pretty"),
                                On(o[2]), "provenance"),
                           On(o[4]), "metrics"),
                      On(o[5]), "instrument"),
                 On(o[6]), "strict-builtin-errors"),
            o[3])

EvalParams(params, o) ==
    Flag(Flag(Flag(Explain(Flag(Flag(params, On(o[1]), "pretty"),
                                On(o[2]), "provenance"),
                           o[3]),
                   On(o[4]), "metrics"),
              On(o[5]), "instrument"),
         On(o[6]), "strict-builtin-errors")

EvalArgs(o) ==
    << <<"pretty", o[1]>>, <<"provenance", o[2]>>, <<"explain", o[3]>>,
       <<"metrics", o[4]>>, <<"instrument", o[5]>>, <<"strictBuiltinErrors", o[6]>> >>

\* input is <<>> when options.input is undefined.
data_get(path, input, o) ==
    Method("data.get", << <<"path", path>>, <<"input", input>> >> \o EvalArgs(o),
           <<"/", "v1", "/", "data", "/">> \o path \o <<"?">>
               \o ParamsToString(EvalParams(
                      IF input # None
                      THEN ParamsSet(<<>>, "input", JSONtokens(input[1]))
                      ELSE <<>>, o)),
           NoOptions)

data_post(path, body, o) ==
    Method("data.post", << <<"path", path>>, <<"body", body>> >> \o EvalArgs(o),
           <<"/", "v1", "/", "data", "/">> \o path \o <<"?">>
               \o ParamsToString(EvalParams(<<>>, o)),
           JsonRequest("POST", JSONstringify(body)))

\* `input: Document = {}`
data_webhook(path, input, pretty) ==
    Method("data.webhook",
           << <<"path", path>>, <<"input", input>>, <<"pretty", pretty>> >>,
           <<"/", "v0", "/", "data", "/">> \o path \o <<"?">>
               \o ParamsToString(Flag(<<>>, On(pretty), "pretty")),
           JsonRequest("POST", JSONstringify(IF input.type = "undefined"
                                             THEN EmptyObject ELSE input)))

data_putHeaderOnMetrics(path, document, ifNoneMatch, metrics) ==
    Method("data.put",
           << <<"path", path>>, <<"document", document>>,
              <<"ifNoneMatch", ifNoneMatch>>, <<"metrics", metrics>> >>,
           <<"/", "v1", "/", "data", "/">> \o path \o <<"?">>
               \o ParamsToString(Flag(<<>>, On(metrics), "metrics")),
           Options(Some("PUT"),
                   IF On(ifNoneMatch) \/ On(metrics)
                   THEN << <<"Content-Type", "application/json">>,
                           <<"If-None-Match", "*">> >>
                   ELSE << <<"Content-Type", "application/json">> >>,
                   BodyOf(JSONstringify(document))))

data_put(path, document, ifNoneMatch, metrics) ==
    Method("data.put",
           << <<"path", path>>, <<"document", document>>,
              <<"ifNoneMatch", ifNoneMatch>>, <<"metrics", metrics>> >>,
           <<"/", "v1", "/", "data", "/">> \o path \o <<"?">>
               \o ParamsToString(Flag(<<>>, On(metrics), "metrics")),
           Options(Some("PUT"),
                   IF On(ifNoneMatch)
                   THEN << <<"Content-Type", "application/json">>,
                           <<"If-None-Match", "*">> >>
                   ELSE << <<"Content-Type", "application/json">> >>,
                   BodyOf(JSONstringify(document))))

data_patch(path, operations) ==
    Method("data.patch", << <<"path", path>>, <<"operations", operations>> >>,
           <<"/", "v1", "/", "data", "/">> \o path,
           Options(Some("PATCH"),
                   << <<"Content-Type", "application/json-patch+json">> >>,
                   BodyOf(JSONstringify(operations))))

data_delete(path, metrics) ==
    Method("data.delete", << <<"path", path>>, <<"metrics", metrics>> >>,
           <<"/", "v1", "/", "data", "/">> \o path \o <<"?">>
               \o ParamsToString(Flag(<<>>, On(metrics), "metrics")),
           Options(Some("DELETE"), <<>>, Undefined))

\* ---- query
query_default(input, pretty) ==
    Method("query.default", << <<"input", input>>, <<"pretty", pretty>> >>,
           <<"/", "?">> \o ParamsToString(Flag(<<>>, On(pretty), "pretty")),
           JsonRequest("POST", JSONstringify(input)))

query_adhoc(query, input, pretty, explain, metrics) ==
    Method("query.adhoc",
           << <<"query", query>>, <<"input", input>>, <<"pretty", pretty>>,
              <<"explain", explain>>, <<"metrics", metrics>> >>,
           <<"/", "v1", "/", "query", "?">>
               \o ParamsToString(Flag(Explain(Flag(<<>>, On(pretty), "pretty"), explain),
                                      On(metrics), "metrics")),
           JsonRequest("POST", JSONstringify(JObject(<< <<"query", JString(query)>>,
                                                        <<"input", input>> >>))))

\* ---- compile
compile_partialEval(req, pretty, explain, metrics, instrument) ==
    Method("compile.partialEval",
           << <<"req", req>>, <<"pretty", pretty>>, <<"explain", explain>>,
              <<"metrics", metrics>>, <<"instrument", instrument>> >>,
           <<"/", "v1", "/", "compile", "?">>
               \o ParamsToString(Flag(Flag(Explain(Flag(<<>>, On(pretty), "pretty"),
                                                   explain),
                                           On(metrics), "metrics"),
                                      On(instrument), "instrument")),
           JsonRequest("POST", JSONstringify(req)))

compile_filter(path, req, accept) ==
    Method("compile.filter",
           << <<"path", path>>, <<"req", req>>, <<"accept", accept>> >>,
           <<"/", "v1", "/", "compile", "/">> \o path,
           Options(Some("POST"),
                   << <<"Accept", accept>>, <<"Content-Type", "application/json">> >>,
                   BodyOf(JSONstringify(req))))

\* ---- health, config, status
\* `plugins.forEach((p) => params.append('exclude-plugin', p))`
RECURSIVE AppendAll(_, _, _)
AppendAll(params, k, list) ==
    IF list = <<>> THEN params
    ELSE AppendAll(ParamsAppend(params, k,
                                IF Head(list).value = "" THEN <<>>
                                ELSE <<Head(list).value>>),
                   k, Tail(list))

\* The loop with params.set in place of params.append: one parameter at most,
\* holding the last name.
health_checkSetExclude(bundles, plugins, excludePlugin) ==
    Method("health.check",
           << <<"bundles", bundles>>, <<"plugins", plugins>>,
              <<"excludePlugin", excludePlugin>> >>,
           <<"/", "health", "?">>
               \o ParamsToString(
                      LET params == Flag(Flag(<<>>, On(bundles), "bundles"),
                                         On(plugins), "plugins")
                          list == IF excludePlugin.type = "array"
                                  THEN excludePlugin.entries ELSE <<excludePlugin>>
                      IN IF Truthy(excludePlugin) /\ list # <<>>
                         THEN ParamsSet(params, "exclude-plugin",
                                        IF list[Len(list)].value = "" THEN <<>>
                                        ELSE <<list[Len(list)].value>>)
                         ELSE params),
           NoOptions)

\* excludePlugin is undefined, a string or an array of strings.
health_check(bundles, plugins, excludePlugin) ==
    Method("health.check",
           << <<"bundles", bundles>>, <<"plugins", plugins>>,
              <<"excludePlugin", excludePlugin>> >>,
           <<"/", "health", "?">>
               \o ParamsToString(
                      LET params == Flag(Flag(<<>>, On(bundles), "bundles"),
                                         On(plugins), "plugins")
                      IN IF Truthy(excludePlugin)
                         THEN AppendAll(params, "exclude-plugin",
                                        IF excludePlugin.type = "array"
                                        THEN excludePlugin.entries
                                        ELSE <<excludePlugin>>)
                         ELSE params),
           NoOptions)

health_custom(name) ==
    Method("health.custom", << <<"name", name>> >>,
           <<"/", "health", "/">> \o name, NoOptions)

\* The query string appended only when it has a parameter.
config_getQueryWhenSet(pretty) ==
    Method("config.get", << <<"pretty", pretty>> >>,
           <<"/", "v1", "/", "config">>
               \o (IF On(pretty) THEN <<"?", "pretty", "=", "true">> ELSE <<>>),
           NoOptions)

config_get(pretty) ==
    Method("config.get", << <<"pretty", pretty>> >>,
           <<"/", "v1", "/", "config", "?">>
               \o ParamsToString(Flag(<<>>, On(pretty), "pretty")),
           NoOptions)

status_get(pretty) ==
    Method("status.get", << <<"pretty", pretty>> >>,
           <<"/", "v1", "/", "status", "?">>
               \o ParamsToString(Flag(<<>>, On(pretty), "pretty")),
           NoOptions)

\* ---- the calls of the model
PolicyIds == { <<"opa", "/", "allow">> }
Regos == { "", "package test" }
DataPaths == { <<"allow">> }
Documents == { JObject(<< <<"x", JNumber(1)>> >>), Undefined }
Accepts == { "application/vnd.opa.sql.postgresql+json" }
Operations ==
    { JArray(<< JObject(<< <<"op", JString("remove")>>,
                           <<"path", JString("/x")>> >>) >>) }

\* The calls below run to their end, several to a behaviour: each takes the
\* arguments that change what request() does (a body or none, an own header),
\* and one optional flag at most; every combination of the optional arguments
\* is taken by the calls of InvokeMethod.
PolicyList == Start(policy_list)

PolicyGet ==
    \E id \in PolicyIds, pretty \in Passed : Start(policy_get(id, pretty))

PolicyPut ==
    \E id \in PolicyIds, rego \in Regos, pretty \in Passed :
        Start(policy_put(id, rego, pretty, None))

DataPost ==
    \E path \in DataPaths, input \in Documents :
        Start(data_post(path, JObject(<< <<"input", input>> >>),
                        <<None, None, None, None, None, None>>))

DataPut ==
    \E path \in DataPaths, document \in Documents, ifNoneMatch \in Passed :
        Start(data_put(path, document, ifNoneMatch, None))

DataPatch ==
    \E path \in DataPaths, operations \in Operations :
        Start(data_patch(path, operations))

CompileFilter ==
    \E path \in DataPaths, accept \in Accepts :
        Start(compile_filter(path, EmptyObject, accept))

\* ------------------------------------------------------ the await points
\* A transport that settles a call with the outcome of any request in flight.
AwaitedOfAnyCall(i) == { m \in inflight : m.seq = calls[i].fetches }

\* The request whose settlement call i awaits.
Awaited(i) == { m \in inflight : m.call = i /\ m.seq = calls[i].fetches }

\* fetch resolves with a response: the call goes on to read its body.
FetchResolve ==
    \E i \in DOMAIN calls, status \in Statuses :
        /\ calls[i].pc = "fetch"
        /\ \E m \in Awaited(i) : inflight' = inflight \ {m}
        /\ calls' = [calls EXCEPT
                ![i].pc = IF Ok(status) THEN "text" ELSE "errText",
                ![i].response = Some([kind |-> "response", status |-> status,
                                      statusText |-> StatusText(status)])]
        /\ UNCHANGED <<config, hasCS, server>>

\* A timer of the client's own that rejects the call while the transport
\* still holds its request.
FetchRejectByOwnTimer ==
    \E i \in DOMAIN calls, err \in TransportErrors :
        /\ calls[i].pc = "fetch"
        /\ calls' = [calls EXCEPT ![i].pc = "done", ![i].result = Rejected(err)]
        /\ UNCHANGED <<config, hasCS, inflight, server>>

\* fetch rejects: no response is obtained.
FetchReject ==
    \E i \in DOMAIN calls, err \in TransportErrors :
        /\ calls[i].pc = "fetch"
        /\ \E m \in Awaited(i) : inflight' = inflight \ {m}
        /\ calls' = [calls EXCEPT
                ![i].pc = "done",
                ![i].response = Some([error |-> err, kind |-> "rejected"]),
                ![i].result = FetchRejection(err)]
        /\ UNCHANGED <<config, hasCS, server>>

\* The error path without its try/catch: a body that cannot be read or parsed
\* rejects the call with the failure of the read or of the parse.
SettleUncaught(call, read, readError) ==
    IF call.pc = "errText"
    THEN IF read = None THEN Rejected(readError)
         ELSE IF read[1] # "" /\ JSONparse(read[1]) = None THEN Rejected(SyntaxError)
         ELSE Rejected(HttpError(call.response[1].status, call.response[1].statusText, read))
    ELSE IF read = None THEN Rejected(readError)
    ELSE SuccessResult(read[1])

\* What the call settles with once response.text() has settled: `read` is
\* <<text>>, or <<>> when it rejected with readError.
Settle(call, read, readError) ==
    IF call.pc = "errText"
    THEN Rejected(HttpError(call.response[1].status, call.response[1].statusText, read))
    ELSE IF read = None THEN Rejected(readError)
    ELSE SuccessResult(read[1])

\* response.text() resolves with the body.
TextResolve ==
    \E i \in DOMAIN calls, text \in BodyTexts :
        /\ calls[i].pc \in {"text", "errText"}
        /\ calls' = [calls EXCEPT
                ![i].pc = "done",
                ![i].read = Some([kind |-> "text", text |-> text]),
                ![i].result = Settle(calls[i], Some(text), SyntaxError)]
        /\ UNCHANGED <<config, hasCS, inflight, server>>

\* response.text() rejects: the body cannot be read.
TextReject ==
    \E i \in DOMAIN calls, err \in BodyReadErrors :
        /\ calls[i].pc \in {"text", "errText"}
        /\ calls' = [calls EXCEPT
                ![i].pc = "done",
                ![i].read = Some([error |-> err, kind |-> "rejected"]),
                ![i].result = Settle(calls[i], None, err)]
        /\ UNCHANGED <<config, hasCS, inflight, server>>

\* The runtime gains or loses the global CompressionStream.
SetCompressionStream ==
    /\ hasCS' = ~hasCS
    /\ UNCHANGED <<config, calls, inflight, server>>

Next ==
    \/ PolicyList
    \/ PolicyGet
    \/ PolicyPut
    \/ DataPost
    \/ DataPut
    \/ DataPatch
    \/ CompileFilter
    \/ FetchResolve
    \/ FetchReject
    \/ TextResolve
    \/ TextReject
    \/ SetCompressionStream

Spec == Init /\ [][Next]_vars

\* The request of one API invocation, for every configuration: the invocation
\* reads config and hasCS only, so the first call of a client shows them all.
Invoke ==
    \/ PolicyList
    \/ PolicyGet
    \/ PolicyPut
    \/ DataPost
    \/ DataPut
    \/ DataPatch
    \/ CompileFilter

NextRequest ==
    \/ calls = <<>> /\ Invoke
    \/ SetCompressionStream

SpecRequest == InitRequest /\ [][NextRequest]_vars

\* ---- every API method, with every combination of its optional arguments
Inputs == { None, Some(JObject(<< <<"user", JString("alice")>> >>)), Some(EmptyObject) }
EvalOptions == Flags \X Flags \X Explains \X Flags \X Flags \X Flags
Queries == { "data.allow == true" }
Excludes ==
    { Undefined, JString(""), JString("bundle"), JArray(<<>>),
      JArray(<< JString("status"), JString("bundle"), JString("status") >>) }
HealthNames == { <<"ready">> }

AnyPolicyGet ==
    \E id \in PolicyIds, pretty \in Flags : Start(policy_get(id, pretty))

AnyPolicyPut ==
    \E id \in PolicyIds, rego \in Regos, pretty \in Flags, metrics \in Flags :
        Start(policy_put(id, rego, pretty, metrics))

AnyPolicyCreate ==
    \E id \in PolicyIds, rego \in Regos, pretty \in Flags, metrics \in Flags :
        Start(policy_create(id, rego, pretty, metrics))

AnyPolicyUpdate ==
    \E id \in PolicyIds, rego \in Regos, pretty \in Flags, metrics \in Flags :
        Start(policy_update(id, rego, pretty, metrics))

AnyPolicyDelete ==
    \E id \in PolicyIds, pretty \in Flags, metrics \in Flags :
        Start(policy_delete(id, pretty, metrics))

AnyDataGet ==
    \E path \in DataPaths, input \in Inputs, o \in EvalOptions :
        Start(data_get(path, input, o))

AnyDataPost ==
    \E path \in DataPaths, input \in Documents, o \in EvalOptions :
        Start(data_post(path, JObject(<< <<"input", input>> >>), o))

AnyDataWebhook ==
    \E path \in DataPaths, input \in Documents, pretty \in Flags :
        Start(data_webhook(path, input, pretty))

AnyDataPut ==
    \E path \in DataPaths, document \in Documents,
       ifNoneMatch \in Flags, metrics \in Flags :
        Start(data_put(path, document, ifNoneMatch, metrics))

AnyDataDelete ==
    \E path \in DataPaths, metrics \in Flags : Start(data_delete(path, metrics))

AnyQueryDefault ==
    \E input \in Documents, pretty \in Flags : Start(query_default(input, pretty))

AnyQueryAdhoc ==
    \E query \in Queries, input \in Documents, pretty \in Flags,
       explain \in Explains, metrics \in Flags :
        Start(query_adhoc(query, input, pretty, explain, metrics))

AnyCompilePartialEval ==
    \E query \in Queries, pretty \in Flags, explain \in Explains,
       metrics \in Flags, instrument \in Flags :
        Start(compile_partialEval(JObject(<< <<"query", JString(query)>> >>),
                                  pretty, explain, metrics, instrument))

AnyHealthCheck ==
    \E bundles \in Flags, plugins \in Flags, excludePlugin \in Excludes :
        Start(health_check(bundles, plugins, excludePlugin))

AnyHealthCustom == \E name \in HealthNames : Start(health_custom(name))

AnyConfigGet == \E pretty \in Flags : Start(config_get(pretty))

AnyStatusGet == \E pretty \in Flags : Start(status_get(pretty))

InvokeMethod ==
    \/ PolicyList
    \/ AnyPolicyGet
    \/ AnyPolicyPut
    \/ AnyPolicyCreate
    \/ AnyPolicyUpdate
    \/ AnyPolicyDelete
    \/ AnyDataGet
    \/ AnyDataPost
    \/ AnyDataWebhook
    \/ AnyDataPut
    \/ DataPatch
    \/ AnyDataDelete
    \/ AnyQueryDefault
    \/ AnyQueryAdhoc
    \/ AnyCompilePartialEval
    \/ CompileFilter
    \/ AnyHealthCheck
    \/ AnyHealthCustom
    \/ AnyConfigGet
    \/ AnyStatusGet

NextMethods ==
    \/ calls = <<>> /\ InvokeMethod
    \/ SetCompressionStream

\* The request of one invocation of any API method with any arguments, by a
\* client with the default or the authorization configuration.
SpecMethods == Init /\ [][NextMethods]_vars

\* ---- a server that stores the body of a PUT verbatim under the request path
\* The path of a request URL: what precedes the query string.
PathOf(url) ==
    IF \E i \in DOMAIN url : url[i] = "?"
    THEN SubSeq(url, 1, (CHOOSE i \in DOMAIN url :
                            url[i] = "?" /\ \A j \in 1..(i - 1) : url[j] # "?") - 1)
    ELSE url

Stored(path) ==
    IF \E i \in DOMAIN server.policies : server.policies[i][1] = path
    THEN Some(server.policies[CHOOSE i \in DOMAIN server.policies :
                                  server.policies[i][1] = path][2])
    ELSE None

\* The bytes of a stored body as the text of a policy module.
RawText(body) ==
    CASE body.type = "string" -> body.value
      [] body.type = "stream" -> "(gzip bytes)"
      [] OTHER -> ""

\* The answer to the request m: <<status, body text, stored body used>>.
Answer(m) ==
    IF m.init.method = Some("PUT") THEN <<200, "{}", None>>
    ELSE IF Stored(PathOf(m.url)) = None
    THEN <<404, "{\"code\":\"resource_not_found\"}", None>>
    ELSE <<200,
           JSONtext(JObject(<< <<"result",
               JObject(<< <<"raw", JString(RawText(Stored(PathOf(m.url))[1]))>> >>)>> >>)),
           Stored(PathOf(m.url))>>

\* The server handles the request a call awaits: fetch resolves.
ServerRespond ==
    \E i \in DOMAIN calls :
        /\ calls[i].pc = "fetch"
        /\ \E m \in Awaited(i) :
              /\ inflight' = inflight \ {m}
              /\ calls' = [calls EXCEPT
                      ![i].pc = IF Ok(Answer(m)[1]) THEN "text" ELSE "errText",
                      ![i].response = Some([kind |-> "response", status |-> Answer(m)[1],
                                            statusText |-> StatusText(Answer(m)[1])])]
              /\ server' =
                    [policies |-> IF m.init.method = Some("PUT")
                                  THEN Assign(server.policies, PathOf(m.url), m.init.body)
                                  ELSE server.policies,
                     sent |-> server.sent \cup
                                 { [call |-> i, raw |-> Answer(m)[3], text |-> Answer(m)[2]] }]
        /\ UNCHANGED <<config, hasCS>>

\* response.text() resolves with the body the server sent to the call.
ServerBody ==
    \E i \in DOMAIN calls :
        /\ calls[i].pc \in {"text", "errText"}
        /\ \E e \in server.sent :
              /\ e.call = i
              /\ calls' = [calls EXCEPT
                      ![i].pc = "done",
                      ![i].read = Some([kind |-> "text", text |-> e.text]),
                      ![i].result = Settle(calls[i], Some(e.text), SyntaxError)]
        /\ UNCHANGED <<config, hasCS, inflight, server>>

NextRoundTrip ==
    \/ PolicyPut
    \/ PolicyGet
    \/ ServerRespond
    \/ ServerBody
    \/ SetCompressionStream

SpecRoundTrip == Init /\ [][NextRoundTrip]_vars

\* ---- one call of policy.put and one call of an alias, in either order, each
\* running to its end
AliasArgs == PolicyIds \X Regos \X {None, Some(TRUE)} \X Flags

AliasPut ==
    /\ \A i \in DOMAIN calls : calls[i].alias # None
    /\ \E a \in AliasArgs : Start(policy_put(a[1], a[2], a[3], a[4]))

AliasCreate ==
    /\ \A i \in DOMAIN calls : calls[i].alias = None
    /\ \E a \in AliasArgs : Start(policy_create(a[1], a[2], a[3], a[4]))

AliasUpdate ==
    /\ \A i \in DOMAIN calls : calls[i].alias = None
    /\ \E a \in AliasArgs : Start(policy_update(a[1], a[2], a[3], a[4]))

NextAlias ==
    \/ AliasPut
    \/ AliasCreate
    \/ AliasUpdate
    \/ FetchResolve
    \/ FetchReject
    \/ TextResolve
    \/ TextReject
    \/ SetCompressionStream

SpecAlias == Init /\ [][NextAlias]_vars

\* ---- data.put repeated, with other calls before and between
MaxRepeat == MaxCalls + 1

RepeatDataPut ==
    \E path \in DataPaths, document \in Documents, ifNoneMatch \in Passed :
        StartWithin(data_put(path, document, ifNoneMatch, Some(TRUE)), MaxRepeat)

RepeatOther ==
    \E method \in
        { policy_list,
          policy_put(<<"opa", "/", "allow">>, "package test", None, None),
          compile_filter(<<"allow">>, EmptyObject,
                         "application/vnd.opa.sql.postgresql+json") } :
        StartWithin(method, MaxRepeat)

NextRepeat ==
    \/ RepeatDataPut
    \/ RepeatOther
    \/ FetchResolve
    \/ FetchReject
    \/ TextResolve
    \/ TextReject
    \/ SetCompressionStream

SpecRepeat == Init /\ [][NextRepeat]_vars

\* ---- request() itself, given any RequestInit
\* A ReadableStream the caller made.
CallerStream == [bytes |-> "{}", type |-> "stream"]

\* options: no method or one, no headers or some of the call's own, no body,
\* an empty string, a string or a stream.
RequestDirect ==
    \E method \in { None, Some("POST") },
       headers \in { <<>>,
                     << <<"Content-Type", "application/json">> >>,
                     << <<"content-type", "application/json">> >>,
                     << <<"Content-Type", "text/plain">> >>,
                     << <<"accept", "text/html">> >> },
       body \in { Undefined, StringBody(""), StringBody("{}"), CallerStream } :
        Start(Method("request", << <<"body", body>> >>, <<"/", "v1", "/", "data">>,
                     Options(method, headers, body)))

NextExecutor ==
    \/ calls = <<>> /\ RequestDirect
    \/ SetCompressionStream

\* One run of request(endpoint, options) up to fetch, for every configuration.
SpecExecutor == InitRequest /\ [][NextExecutor]_vars

\* ---- calls whose transport settles in the end
\* The transport settles what some call awaits, and the call runs on.
TransportSettles == FetchResolve \/ FetchReject \/ TextResolve \/ TextReject

\* `new OPAClient()` in a runtime that has CompressionStream.
InitLive ==
    /\ config = Constructor(DefaultConfig)
    /\ hasCS = TRUE
    /\ calls = <<>>
    /\ inflight = {}
    /\ server = NoServerState

NextLive ==
    \/ PolicyList
    \/ DataPut
    \/ FetchResolve
    \/ FetchReject
    \/ TextResolve
    \/ TextReject

\* Every fetch and every body read that a call awaits settles in the end, and
\* the event loop then runs the continuation of the call; the calls of a
\* behaviour being finitely many, each of them has its turn.
SpecLive == InitLive /\ [][NextLive]_vars /\ WF_vars(TransportSettles)

\* ---- ids and paths that hold characters of the URL syntax: one call of
\* policy.get/put/delete and one call of a method that takes a path or a name
SpecialIds == { <<"opa", "/", "allow">>, <<"a", ":", "b">>, <<"a", "?", "b">>, <<"test">> }
SpecialPaths == { <<"a", "/", "b">>, <<"a", "?", "b">>, <<"a", "#", "b">>, <<"allow">> }

PolicyGroup == { "policy.get", "policy.put", "policy.delete" }

PathPolicy ==
    /\ \A m \in inflight : m.api \notin PolicyGroup
    /\ \E id \in SpecialIds, pretty \in Flags :
          \/ Start(policy_get(id, pretty))
          \/ Start(policy_put(id, "package test", pretty, None))
          \/ Start(policy_delete(id, pretty, None))

PathVerbatim ==
    /\ \A m \in inflight : m.api \in PolicyGroup
    /\ \E path \in SpecialPaths :
          \/ Start(data_get(path, None, <<None, None, None, None, None, None>>))
          \/ \E operations \in Operations : Start(data_patch(path, operations))
          \/ \E accept \in Accepts : Start(compile_filter(path, EmptyObject, accept))
          \/ Start(health_custom(path))

NextPaths ==
    \/ PathPolicy
    \/ PathVerbatim
    \/ SetCompressionStream

SpecPaths == Init /\ [][NextPaths]_vars

\* ============================================================ properties
Max(S) == CHOOSE x \in S : \A y \in S : y <= x

\* The value the last entry of a header record gives to the header named n
\* (a lowercased name, header names being case-insensitive), if any.
LayerValue(obj, n) ==
    LET idx == { i \in DOMAIN obj : Lower(obj[i][1]) = n }
    IN IF idx = {} THEN None ELSE Some(obj[Max(idx)][2])

BuiltIn == << <<"Accept", "application/json">>, <<"Accept-Encoding", "gzip">> >>

HeaderNames ==
    { "accept", "accept-encoding", "authorization", "content-type",
      "content-encoding", "if-none-match" }

\* The value of the highest-precedence layer that names n.
LaterWinsValue(m, n) ==
    IF LayerValue(m.options.headers, n) # None THEN LayerValue(m.options.headers, n)
    ELSE IF LayerValue(BuiltIn, n) # None THEN LayerValue(BuiltIn, n)
    ELSE LayerValue(config.headers, n)

\* C1: every request carries, for every header, the value of the last of the
\* layers configuration, built-in, per-call that names the header (the
\* Content-Encoding that the executor sets on a compressed body apart).
C1_LaterWinsPrecedence ==
    \A m \in inflight : \A n \in HeaderNames :
        (n = "content-encoding" /\ m.init.body.type = "stream")
        \/ HeadersGet(m.init.headers, n) = LaterWinsValue(m, n)

HasKey(obj, k) == \E i \in DOMAIN obj : obj[i][1] = k
OtherSpelling(obj, k) == \E i \in DOMAIN obj : obj[i][1] # k /\ Lower(obj[i][1]) = Lower(k)

C10_CompressionPolicy ==
    [][\A m \in inflight' \ inflight :
        LET given == m.options.body
            ct == HeadersGet(m.init.headers, "Content-Type")
            eligible ==
                /\ given.type = "string" /\ given.value # ""
                /\ ct \in { Some("application/json"), Some("application/json-patch+json") }
                /\ hasCS
        IN IF eligible
           THEN /\ m.init.body = [gzip |-> given.value, type |-> "stream"]
                /\ HeadersGet(m.init.headers, "Content-Encoding") = Some("gzip")
           ELSE /\ m.init.body = given
                /\ HeadersGet(m.init.headers, "Content-Encoding")
                      = LayerValue(config.headers, "content-encoding")]_vars

C10_Witness ==
    \E m \in inflight :
        /\ m.api = "data.patch" /\ m.init.body.type = "stream"
        /\ HeadersGet(m.init.headers, "Content-Encoding") = Some("gzip")

\* ------------------------------------------------- response handling
GotResponse(c) == c.response # None /\ c.response[1].kind = "response"
Success2xx(c) == GotResponse(c) /\ c.response[1].status \in 200..299
HttpFailure(c) == GotResponse(c) /\ c.response[1].status \notin 200..299
ReadText(c) == c.read # None /\ c.read[1].kind = "text"

\* Whether a message has the piece s among the pieces it concatenates.
Contains(message, s) == s = "" \/ \E k \in DOMAIN message : message[k] = s

\* The string-valued field k of the JSON object a body text holds, if any.
BodyField(text, k) ==
    IF text = "" \/ JSONparse(text) = None \/ JSONparse(text)[1].type # "object"
       \/ Field(JSONparse(text)[1], k) = None
       \/ Field(JSONparse(text)[1], k)[1].type # "string"
    THEN None
    ELSE Some(Field(JSONparse(text)[1], k)[1].value)

\* C3: a call with a 2xx response whose body text was read is fulfilled with
\* the empty object when the text is empty and with the parsed value when the
\* text is JSON.
C3_SuccessResult ==
    \A i \in DOMAIN calls :
        LET c == calls[i] IN
        (Success2xx(c) /\ ReadText(c)) =>
            /\ c.read[1].text = "" =>
                  c.result = [state |-> "fulfilled", value |-> [entries |-> <<>>, type |-> "object"]]
            /\ (c.read[1].text # "" /\ JSONparse(c.read[1].text) # None) =>
                  c.result = [state |-> "fulfilled", value |-> JSONparse(c.read[1].text)[1]]

C3_Witness ==
    \E i, j \in DOMAIN calls :
        /\ calls[i].response = Some([kind |-> "response", status |-> 204,
                                     statusText |-> "No Content"])
        /\ calls[i].read = Some([kind |-> "text", text |-> ""])
        /\ calls[i].result = Fulfilled(EmptyObject)
        /\ Success2xx(calls[j])
        /\ calls[j].read = Some([kind |-> "text", text |-> "true"])
        /\ calls[j].result = Fulfilled(JBool(TRUE))

\* C4: a call with a response outside 2xx is never fulfilled, and once the
\* body read has settled it is rejected with an error whose message holds the
\* status code and, when the body is a JSON object with a message, that message.
C4_FailureRejects ==
    \A i \in DOMAIN calls :
        LET c == calls[i] IN
        HttpFailure(c) =>
            /\ c.result.state # "fulfilled"
            /\ c.read # None =>
                  /\ c.result.state = "rejected"
                  /\ Contains(c.result.error.message, ToString(c.response[1].status))
                  /\ (ReadText(c) /\ BodyField(c.read[1].text, "message") # None) =>
                        Contains(c.result.error.message,
                                 BodyField(c.read[1].text, "message")[1])

C4_Witness ==
    \E i \in DOMAIN calls :
        /\ GotResponse(calls[i]) /\ calls[i].response[1].status = 404
        /\ calls[i].read = Some([kind |-> "text", text |-> "{\"message\":\"denied\"}"])
        /\ calls[i].result.state = "rejected"
        /\ Contains(calls[i].result.error.message, "404")
        /\ Contains(calls[i].result.error.message, "denied")

\* C5: the error of a call rejected for a response outside 2xx is a
\* ClientError that has the fields code, errors and response.
C5_ThrowsClientError ==
    \A i \in DOMAIN calls :
        (HttpFailure(calls[i]) /\ calls[i].result.state = "rejected") =>
            /\ calls[i].result.error.name = "ClientError"
            /\ {"code", "errors", "response"} \subseteq DOMAIN calls[i].result.error

\* C6 as stated: when the body of a response outside 2xx is a JSON object with
\* a code, the message of the error holds that code.
C6_CodeInMessage ==
    \A i \in DOMAIN calls :
        LET c == calls[i] IN
        (HttpFailure(c) /\ ReadText(c) /\ BodyField(c.read[1].text, "code") # None) =>
            /\ c.result.state = "rejected"
            /\ Contains(c.result.error.message, BodyField(c.read[1].text, "code")[1])

\* C6 amended: the code of such a body is not put into the message, which is
\* the status line followed by the body's message when it has a non-empty one;
\* the parsed body, its code included, is the cause of the error.
C6_CodeOnlyInCause ==
    \A i \in DOMAIN calls :
        LET c == calls[i]
            msg == BodyField(c.read[1].text, "message")
        IN
        (HttpFailure(c) /\ ReadText(c) /\ BodyField(c.read[1].text, "code") # None) =>
            /\ c.result.state = "rejected"
            /\ c.result.error.message =
                  <<"OPA request failed: ", ToString(c.response[1].status), " ",
                    c.response[1].statusText>>
                  \o (IF msg # None /\ msg[1] # "" THEN <<" - ", msg[1]>> ELSE <<>>)
            /\ ~Contains(c.result.error.message, BodyField(c.read[1].text, "code")[1])
            /\ c.result.error.cause = JSONparse(c.read[1].text)

C6_Witness ==
    \E i \in DOMAIN calls :
        /\ HttpFailure(calls[i])
        /\ calls[i].read = Some([kind |-> "text",
                 text |-> "{\"code\":\"internal_error\",\"message\":\"boom\"}"])
        /\ calls[i].result.state = "rejected"
        /\ Contains(calls[i].result.error.message, "boom")
        /\ ~Contains(calls[i].result.error.message, "internal_error")

\* C7: a call with a 2xx response whose body text is neither empty nor JSON
\* is rejected with the parse error, having issued its one request and no other.
C7_DecodeFailure ==
    \A i \in DOMAIN calls :
        LET c == calls[i] IN
        (Success2xx(c) /\ ReadText(c) /\ c.read[1].text # ""
           /\ JSONparse(c.read[1].text) = None) =>
            /\ c.result.state = "rejected"
            /\ c.result.error.name = "SyntaxError"
            /\ c.fetches = 1
            /\ ~\E m \in inflight : m.call = i

C7_Witness ==
    \E i \in DOMAIN calls :
        /\ Success2xx(calls[i])
        /\ calls[i].read = Some([kind |-> "text", text |-> "not json"])
        /\ calls[i].result = Rejected(SyntaxError)

\* C8: a call whose fetch was rejected is rejected with the very error of the
\* transport; a call rejected for a response outside 2xx is rejected with an
\* Error built by the client, which is none of the transport's.
C8_TransportErrorUnchanged ==
    \A i \in DOMAIN calls :
        LET c == calls[i] IN
        /\ (c.response # None /\ c.response[1].kind = "rejected") =>
              c.result = [error |-> c.response[1].error, state |-> "rejected"]
        /\ (HttpFailure(c) /\ c.result.state = "rejected") =>
              /\ c.result.error.name = "Error"
              /\ c.result.error.message[1] = "OPA request failed: "
              /\ c.result.error \notin TransportErrors \cup BodyReadErrors

C8_Witness ==
    \E i, j \in DOMAIN calls :
        /\ calls[i].response # None /\ calls[i].response[1].kind = "rejected"
        /\ calls[i].result.state = "rejected"
        /\ calls[i].result.error \in TransportErrors
        /\ HttpFailure(calls[j]) /\ calls[j].result.state = "rejected"

\* C9: every call has made exactly one fetch, whatever its outcome, and has a
\* request with the transport only while it awaits that fetch.
C9_ExactlyOneFetch ==
    \A i \in DOMAIN calls :
        /\ calls[i].fetches = 1
        /\ Cardinality({ m \in inflight : m.call = i })
              = IF calls[i].pc = "fetch" THEN 1 ELSE 0

C9_Witness ==
    \E i, j \in DOMAIN calls :
        /\ calls[i].result.state = "fulfilled" /\ calls[i].fetches = 1
        /\ calls[j].pc = "done" /\ calls[j].result.state = "rejected"
        /\ calls[j].response[1].kind = "rejected" /\ calls[j].fetches = 1

\* ------------------------------------------------- query string (C11-C13)
\* The tokens of a URL after its first "?", or <<>> when it has none.
RECURSIVE AfterFirst(_, _)
AfterFirst(s, tok) ==
    IF s = <<>> THEN <<>>
    ELSE IF Head(s) = tok THEN Tail(s) ELSE AfterFirst(Tail(s), tok)

RECURSIVE UpToFirst(_, _)
UpToFirst(s, tok) ==
    IF s = <<>> \/ Head(s) = tok THEN <<>>
    ELSE <<Head(s)>> \o UpToFirst(Tail(s), tok)

\* The parameters of a query string, in order: <<name, encoded value>>.
RECURSIVE SplitParams(_)
SplitParams(q) ==
    IF q = <<>> THEN <<>>
    ELSE LET piece == UpToFirst(q, "&")
         IN << <<Head(piece), AfterFirst(piece, "=")>> >>
                \o SplitParams(AfterFirst(q, "&"))

QueryParams(url) == SplitParams(AfterFirst(url, "?"))

\* The encoded values the query string of url gives to the parameter name.
ValuesOf(url, name) ==
    LET q == QueryParams(url)
    IN [ i \in 1..Cardinality({ k \in DOMAIN q : q[k][1] = name }) |->
            q[CHOOSE k \in DOMAIN q :
                /\ q[k][1] = name
                /\ Cardinality({ l \in 1..k : q[l][1] = name }) = i][2] ]

HasArg(m, k) == \E i \in DOMAIN m.args : m.args[i][1] = k
Arg(m, k) == m.args[CHOOSE i \in DOMAIN m.args : m.args[i][1] = k][2]

\* The boolean optional arguments, each with its query parameter.
FlagParams ==
    { <<"pretty", "pretty">>, <<"metrics", "metrics">>,
      <<"provenance", "provenance">>, <<"instrument", "instrument">>,
      <<"strictBuiltinErrors", "strict-builtin-errors">>,
      <<"bundles", "bundles">>, <<"plugins", "plugins">> }

\* C11: for every API method and every boolean optional flag it accepts, the
\* flag's parameter is in the query string of the request, once and with the
\* value true, if the caller passed true, and is absent from it if the caller
\* passed false or omitted the flag.
C11_FlagIffTrue ==
    \A m \in inflight : \A f \in FlagParams :
        HasArg(m, f[1]) =>
            ValuesOf(m.url, f[2]) =
                (IF Arg(m, f[1]) = Some(TRUE) THEN << <<"true">> >> ELSE <<>>)

\* data.get with some flags passed true, one passed false and one omitted.
C11_Witness ==
    \E m \in inflight :
        /\ m.api = "data.get"
        /\ Arg(m, "pretty") = Some(FALSE)
        /\ Arg(m, "provenance") = None
        /\ Arg(m, "metrics") = Some(TRUE)
        /\ Arg(m, "strictBuiltinErrors") = Some(TRUE)
        /\ QueryParams(m.url) = << <<"metrics", <<"true">> >>,
                                   <<"strict-builtin-errors", <<"true">> >> >>

ExplainMethods == { "data.get", "data.post", "query.adhoc", "compile.partialEval" }

\* C12: the methods that accept explain are data.get, data.post, query.adhoc
\* and compile.partialEval; when the caller provides a value the query string
\* of the request holds explain once, with that literal value verbatim, and
\* when the caller provides none the query string holds no explain parameter.
C12_ExplainVerbatim ==
    \A m \in inflight :
        /\ HasArg(m, "explain") <=> m.api \in ExplainMethods
        /\ HasArg(m, "explain") =>
              ValuesOf(m.url, "explain") =
                  (IF Arg(m, "explain") = None THEN <<>>
                   ELSE << <<Arg(m, "explain")[1]>> >>)

\* query.adhoc with explain "notes", set between pretty and metrics.
C12_Witness ==
    \E m \in inflight :
        /\ m.api = "query.adhoc"
        /\ Arg(m, "explain") = Some("notes")
        /\ QueryParams(m.url) = << <<"pretty", <<"true">> >>,
                                   <<"explain", <<"notes">> >>,
                                   <<"metrics", <<"true">> >> >>

\* The character a percent-encoded token stands for.
FormDecodeToken(tok) ==
    CASE tok = "%7B" -> "{"
      [] tok = "%7D" -> "}"
      [] tok = "%5B" -> "["
      [] tok = "%5D" -> "]"
      [] tok = "%22" -> "\""
      [] tok = "%2C" -> ","
      [] tok = "%3A" -> ":"
      [] tok = "+" -> " "
      [] OTHER -> tok

FormDecode(s) == [i \in DOMAIN s |-> FormDecodeToken(s[i])]

\* The characters a query value may hold unencoded.
Unreserved(tok) == tok \notin { "{", "}", "[", "]", "\"", ",", ":", " ", "&", "=", "?", "#", "/" }

DataGetOrder ==
    << "input", "pretty", "provenance", "explain", "metrics", "instrument",
       "strict-builtin-errors" >>

\* Whether the call m of data.get gives the parameter name a value.
DataGetHas(m, name) ==
    CASE name = "input" -> Arg(m, "input") # None
      [] name = "explain" -> Arg(m, "explain") # None
      [] name = "strict-builtin-errors" -> Arg(m, "strictBuiltinErrors") = Some(TRUE)
      [] OTHER -> Arg(m, name) = Some(TRUE)

\* C13: data.get(path, options) issues a GET (no method, no body given to
\* fetch) to {baseUrl}/v1/data/{path}; the names of its query string are the
\* present ones among input, pretty, provenance, explain, metrics, instrument,
\* strict-builtin-errors, in that order; the value of input has no unencoded
\* reserved character and decodes to the JSON text of options.input.
C13_DataGetQuery ==
    \A m \in inflight :
        m.api = "data.get" =>
            LET q == QueryParams(m.url)
                Has(name) == DataGetHas(m, name)
            IN /\ m.init.method = None
               /\ m.init.body = Undefined
               /\ UpToFirst(m.url, "?") =
                     config.baseUrl \o <<"/", "v1", "/", "data", "/">> \o Arg(m, "path")
               /\ [i \in DOMAIN q |-> q[i][1]] = SelectSeq(DataGetOrder, Has)
               /\ Arg(m, "input") # None =>
                     /\ \A i \in DOMAIN q[1][2] : Unreserved(q[1][2][i])
                     /\ Some(Join(FormDecode(q[1][2]))) = JSONstringify(Arg(m, "input")[1])

\* data.get('allow', {input: {user: 'alice'}, explain: 'full', metrics: true})
C13_Witness ==
    \E m \in inflight :
        /\ m.api = "data.get"
        /\ Arg(m, "path") = <<"allow">>
        /\ Arg(m, "input") = Some(JObject(<< <<"user", JString("alice")>> >>))
        /\ Arg(m, "explain") = Some("full")
        /\ Arg(m, "metrics") = Some(TRUE)
        /\ m.url = config.baseUrl \o
              << "/", "v1", "/", "data", "/", "allow", "?",
                 "input", "=", "%7B", "%22", "user", "%22", "%3A", "%22", "alice",
                 "%22", "%7D", "&", "explain", "=", "full", "&", "metrics", "=", "true" >>

\* ------------------------------------------------------- base URL (C14)
\* C14: for every baseUrl given at construction, with zero, one or several
\* trailing slashes, the stored base URL is the given one without its
\* trailing slashes, and the URL of every request is the stored base URL
\* followed by the endpoint.
C14_BaseUrlComposition ==
    /\ \A b \in BaseUrls :
          Constructor([baseUrl |-> b, headers |-> <<>>]).baseUrl = Origin
    /\ config.baseUrl = Origin
    /\ \A m \in inflight : m.url = Origin \o m.endpoint

\* A client constructed with 'http://localhost:8181/' (and also one
\* constructed with several trailing slashes) that has called policy.list().
C14_Witness ==
    /\ \A b \in { Origin \o <<"/">>, Origin \o <<"/", "/">> } :
          /\ b \in BaseUrls
          /\ Constructor([baseUrl |-> b, headers |-> config.headers]) = config
    /\ \E m \in inflight :
          /\ m.api = "policy.list"
          /\ m.init.method = None
          /\ m.url = << "http", ":", "/", "/", "localhost", ":", "8181",
                        "/", "v1", "/", "policies" >>

\* ------------------------------------------- configuration frame (C15)
\* C15: no step of any API call (its request, a response, a failure, the
\* reading of a body), changes the configuration of the client: the stored
\* base URL and the default header record stay as the constructor left them.
C15_ConfigNeverChanges == [][config' = config]_vars

\* After a call that failed, with a compressed request in flight that carries
\* Content-Encoding and a header of its own, the configuration is still the
\* one constructed.
C15_Witness ==
    /\ config = Constructor(AuthConfig)
    /\ \E i \in DOMAIN calls : calls[i].result.state = "rejected"
    /\ \E m \in inflight :
          /\ m.init.body.type = "stream"
          /\ HeadersGet(m.init.headers, "Content-Encoding") = Some("gzip")
          /\ HeadersGet(m.init.headers, "If-None-Match") = Some("*")

\* ------------------------------------------------- repeated calls (C16)
\* The text a request body carries, compressed or not.
BodyText(body) ==
    CASE body.type = "string" -> Some(body.value)
      [] body.type = "stream" -> Some(body.gzip)
      [] OTHER -> None

\* C16: two calls data.put(path, doc, ifNoneMatch, metrics) with the same
\* arguments on the same client, whatever calls were made before and between
\* them and however those ended, produce the same URL, the same method and
\* the same body text, and, the runtime offering compression at both calls or
\* at neither, the same request (URL, method, headers, body) altogether.
C16_DataPutRepeatable ==
    \A m1, m2 \in inflight :
        (m1.api = "data.put" /\ m2.api = "data.put" /\ m1.args = m2.args) =>
            /\ m1.url = m2.url
            /\ m1.init.method = m2.init.method
            /\ BodyText(m1.init.body) = BodyText(m2.init.body)
            /\ m1.init.body.type = m2.init.body.type => m1.init = m2.init

\* data.put made first and third, with a failed compile.filter between them.
C16_Witness ==
    /\ Len(calls) = 3
    /\ calls[2].result.state = "rejected"
    /\ \E m1, m2 \in inflight :
          /\ m1.call = 1 /\ m2.call = 3
          /\ m1.api = "data.put" /\ m2.api = "data.put" /\ m1.args = m2.args
          /\ Arg(m1, "ifNoneMatch") = Some(TRUE)
          /\ m1.init.body.type = "stream"
          /\ m1.init = m2.init

\* ------------------------------------------------- policy round trip (C17)
\* result.raw of the value a call was fulfilled with, if any.
RawOf(call) ==
    IF call.result.state = "fulfilled" /\ Field(call.result.value, "result") # None
    THEN Field(Field(call.result.value, "result")[1], "raw")
    ELSE None

\* C17: policy.put(id, rego) sends a PUT whose body is the string rego itself,
\* not compressed (no Content-Encoding, no stream), with Content-Type
\* text/plain; policy.put and policy.get address the same path for the same
\* id; and, the server storing the body of a PUT under the request path and
\* serving it as the raw text of the policy, a policy.get answered from what a
\* policy.put stored returns a policy whose raw text is the rego that was put.
C17_PolicyRoundTrip ==
    /\ \A m \in inflight :
          m.api = "policy.put" =>
              /\ m.init.method = Some("PUT")
              /\ m.init.body = [type |-> "string", value |-> Arg(m, "rego")]
              /\ m.init.duplex = None
              /\ HeadersGet(m.init.headers, "Content-Type") = Some("text/plain")
              /\ HeadersGet(m.init.headers, "Content-Encoding") = None
    /\ \A m1, m2 \in inflight :
          (m1.api = "policy.put" /\ m2.api = "policy.get"
                /\ Arg(m1, "id") = Arg(m2, "id")) =>
              PathOf(m1.url) = PathOf(m2.url)
    /\ \A i \in DOMAIN server.policies :
          /\ server.policies[i][2].type = "string"
          /\ server.policies[i][2].value \in Regos
    /\ \A e \in server.sent :
          (e.raw # None /\ calls[e.call].pc = "done") =>
              RawOf(calls[e.call]) = Some([type |-> "string", value |-> e.raw[1].value])

\* policy.put('opa/allow', 'package test') answered, then policy.get('opa/allow')
\* answered from the stored policy, where compression is available.
C17_Witness ==
    /\ hasCS
    /\ Len(calls) = 2
    /\ server.policies =
          << << << "http", ":", "/", "/", "localhost", ":", "8181",
                   "/", "v1", "/", "policies", "/", "opa", "%2F", "allow" >>,
                [type |-> "string", value |-> "package test"] >> >>
    /\ calls[1].pc = "done" /\ calls[1].result.state = "fulfilled"
    /\ calls[2].pc = "done"
    /\ RawOf(calls[2]) = Some([type |-> "string", value |-> "package test"])

\* ------------------------------------------------------- aliases (C18)
Aliases == { Some("policy.create"), Some("policy.update") }

\* C18: policy.create and policy.update called with the arguments (id, rego,
\* pretty, metrics), any of the last two omitted or not, issue the request
\* policy.put issues for those arguments (URL, method, headers, body), and a
\* call of an alias the transport answers as it answers a call of policy.put
\* ends with the same result or the same error.
C18_AliasesAsPut ==
    /\ \A m1, m2 \in inflight :
          (m1.alias = None /\ m2.alias \in Aliases /\ m1.args = m2.args) =>
              m1.url = m2.url /\ m1.init = m2.init
    /\ \A i, j \in DOMAIN calls :
          (/\ calls[i].alias = None /\ calls[j].alias \in Aliases
           /\ calls[i].pc = "done" /\ calls[j].pc = "done"
           /\ calls[i].response = calls[j].response
           /\ calls[i].read = calls[j].read) =>
              calls[i].result = calls[j].result

\* policy.put and policy.create in flight with the same arguments, pretty
\* omitted and metrics true.
C18_Witness ==
    \E m1, m2 \in inflight :
        /\ m1.api = "policy.put" /\ m1.alias = None
        /\ m2.alias = Some("policy.create")
        /\ m1.args = m2.args
        /\ Arg(m1, "pretty") = None /\ Arg(m1, "metrics") = Some(TRUE)
        /\ QueryParams(m2.url) = << <<"metrics", <<"true">> >> >>
        /\ m1.init = m2.init

\* ------------------------------------------------ compile.filter (C19)
\* C19: compile.filter(path, req, accept) issues a POST to
\* {baseUrl}/v1/compile/{path} without a query string, with Content-Type
\* application/json and with the Accept header equal to the accept the caller
\* supplied, whatever headers the configuration holds.
C19_FilterAcceptIsCallers ==
    \A m \in inflight :
        m.api = "compile.filter" =>
            /\ m.init.method = Some("POST")
            /\ m.url = config.baseUrl \o <<"/", "v1", "/", "compile", "/">> \o Arg(m, "path")
            /\ QueryParams(m.url) = <<>>
            /\ HeadersGet(m.init.headers, "Content-Type") = Some("application/json")
            /\ HeadersGet(m.init.headers, "Accept") = Some(Arg(m, "accept"))

\* ------------------------------------------------------ data.put (C20)
\* C20: data.put sends the header If-None-Match: * when the caller passed
\* ifNoneMatch = true and no If-None-Match header otherwise, whatever the
\* metrics flag and the document are; it sends a PUT with Content-Type
\* application/json whose body carries the text of JSON.stringify(document).
C20_IfNoneMatchIffAsked ==
    \A m \in inflight :
        m.api = "data.put" =>
            /\ HeadersGet(m.init.headers, "If-None-Match") =
                  (IF Arg(m, "ifNoneMatch") = Some(TRUE) THEN Some("*") ELSE None)
            /\ m.init.method = Some("PUT")
            /\ HeadersGet(m.init.headers, "Content-Type") = Some("application/json")
            /\ BodyText(m.init.body) = JSONstringify(Arg(m, "document"))

\* data.put('allow', {x: 1}, true) without metrics, and not compressed.
C20_Witness ==
    \E m \in inflight :
        /\ m.api = "data.put"
        /\ Arg(m, "ifNoneMatch") = Some(TRUE)
        /\ Arg(m, "metrics") = None
        /\ QueryParams(m.url) = <<>>
        /\ HeadersGet(m.init.headers, "If-None-Match") = Some("*")
        /\ m.init.body = [type |-> "string", value |-> "{\"x\":1}"]

\* ------------------------------------------------- health.check (C21)
\* The names excludePlugin excludes: those of an array, the one of a non-empty
\* string, none when it is omitted or empty.
ExcludedNames(x) ==
    CASE x.type = "array" -> [i \in DOMAIN x.entries |-> x.entries[i].value]
      [] x.type = "string" /\ x.value # "" -> <<x.value>>
      [] OTHER -> <<>>

\* C21: the query string of health.check(bundles, plugins, excludePlugin)
\* holds one exclude-plugin parameter for each excluded name, duplicates
\* kept, in the order given and after bundles and plugins: one for a single
\* string, n for an array of n names, none for an omitted or empty value.
C21_ExcludePluginPerName ==
    \A m \in inflight :
        m.api = "health.check" =>
            LET q == QueryParams(m.url)
                names == ExcludedNames(Arg(m, "excludePlugin"))
                lead == (IF Arg(m, "bundles") = Some(TRUE) THEN <<"bundles">> ELSE <<>>)
                        \o (IF Arg(m, "plugins") = Some(TRUE) THEN <<"plugins">> ELSE <<>>)
            IN /\ [i \in DOMAIN q |-> q[i][1]]
                     = lead \o [i \in DOMAIN names |-> "exclude-plugin"]
               /\ ValuesOf(m.url, "exclude-plugin")
                     = [i \in DOMAIN names |-> <<names[i]>>]

\* health.check(true, true, ['status', 'bundle', 'status'])
C21_Witness ==
    \E m \in inflight :
        /\ m.api = "health.check"
        /\ Arg(m, "excludePlugin") =
              [entries |-> << [type |-> "string", value |-> "status"],
                              [type |-> "string", value |-> "bundle"],
                              [type |-> "string", value |-> "status"] >>,
               type |-> "array"]
        /\ m.url = config.baseUrl \o
              << "/", "health", "?", "bundles", "=", "true", "&", "plugins", "=", "true",
                 "&", "exclude-plugin", "=", "status", "&", "exclude-plugin", "=", "bundle",
                 "&", "exclude-plugin", "=", "status" >>

\* ------------------------------------------------ concurrent calls (C22)
\* The requests call i has with the transport.
RequestsOf(fl, i) == { m \in fl : m.call = i }

\* The calls a step touches: those it starts, those whose record it changes,
\* those whose request it takes from or gives to the transport.
Touched ==
    { i \in DOMAIN calls' :
        \/ i \notin DOMAIN calls
        \/ calls'[i] # calls[i]
        \/ RequestsOf(inflight', i) # RequestsOf(inflight, i) }

\* The request of a call is a function of what the call was given and of
\* whether the runtime compresses; the outcome of a call is a function of
\* what the transport gave that call.
OwnInputsOnly ==
    /\ \A m1, m2 \in inflight :
          (m1.endpoint = m2.endpoint /\ m1.options = m2.options) =>
              /\ m1.url = m2.url
              /\ m1.init.method = m2.init.method
              /\ BodyText(m1.init.body) = BodyText(m2.init.body)
              /\ m1.init.body.type = m2.init.body.type => m1.init = m2.init
    /\ \A i, j \in DOMAIN calls :
          (/\ calls[i].pc = "done" /\ calls[j].pc = "done"
           /\ calls[i].response = calls[j].response
           /\ calls[i].read = calls[j].read) =>
              calls[i].result = calls[j].result

\* C22: with several calls in flight on one client and the responses arriving
\* in any order, every step is a step of one call and leaves every other
\* call, its request and its outcome as they were; a call that has settled
\* stays as it settled; and the request and the outcome of a call are those
\* its own arguments and its own response determine, whatever other calls
\* are in flight.
C22_ConcurrentCallsIndependent ==
    /\ []OwnInputsOnly
    /\ [][ /\ DOMAIN calls \subseteq DOMAIN calls'
           /\ Cardinality(Touched) <= 1
           /\ \A i \in DOMAIN calls :
                 calls[i].pc = "done" => calls'[i] = calls[i] ]_vars

\* Two calls in flight together, the second answered and settled while the
\* first still awaits its response.
C22_Witness ==
    /\ Len(calls) = 2
    /\ calls[1].pc = "fetch" /\ calls[1].result.state = "pending"
    /\ \E m \in inflight : m.call = 1
    /\ calls[2].pc = "done" /\ calls[2].result.state = "fulfilled"
    /\ GotResponse(calls[2])

\* ------------------------------------------------- status line (C23, C24)
\* The first n pieces of a message, or the whole message when it has fewer.
Prefix(message, n) == SubSeq(message, 1, IF Len(message) < n THEN Len(message) ELSE n)

\* C23 as stated: the message of the error raised for a response outside 2xx
\* begins with the numeric status and the status text: its first characters
\* are '<status> <statusText>'.
C23_MessageBeginsWithStatus ==
    \A i \in DOMAIN calls :
        LET c == calls[i] IN
        (HttpFailure(c) /\ c.pc = "done") =>
            /\ c.result.state = "rejected"
            /\ Prefix(c.result.error.message, 3)
                  = <<ToString(c.response[1].status), " ", c.response[1].statusText>>

\* C23 amended: the message of the error raised for a response outside 2xx
\* begins with the fixed text 'OPA request failed: ', and the numeric status,
\* a space and the status text follow it at once.
C23_MessageBeginsWithPrefixAndStatus ==
    \A i \in DOMAIN calls :
        LET c == calls[i] IN
        (HttpFailure(c) /\ c.pc = "done") =>
            /\ c.result.state = "rejected"
            /\ Prefix(c.result.error.message, 4)
                  = <<"OPA request failed: ", ToString(c.response[1].status), " ",
                      c.response[1].statusText>>

\* A 404 whose body has a message, and a 500 whose body could not be read.
C23_Witness ==
    \E i, j \in DOMAIN calls :
        /\ calls[i].pc = "done" /\ GotResponse(calls[i]) /\ calls[i].response[1].status = 404
        /\ calls[i].result.state = "rejected"
        /\ calls[i].result.error.message
              = <<"OPA request failed: ", "404", " ", "Not Found", " - ", "denied">>
        /\ calls[j].pc = "done" /\ GotResponse(calls[j]) /\ calls[j].response[1].status = 500
        /\ calls[j].read # None /\ calls[j].read[1].kind = "rejected"
        /\ calls[j].result.state = "rejected"
        /\ calls[j].result.error.message
              = <<"OPA request failed: ", "500", " ", "Internal Server Error">>

\* Whether the body of a response gives the error no message to append: it
\* could not be read, is empty, is not JSON, is null, or is JSON without a
\* message or with an empty one.
NoMessageToAppend(c) ==
    \/ c.read[1].kind = "rejected"
    \/ /\ c.read[1].kind = "text"
       /\ \/ c.read[1].text = ""
          \/ JSONparse(c.read[1].text) = None
          \/ JSONparse(c.read[1].text)[1].type = "null"
          \/ Field(JSONparse(c.read[1].text)[1], "message") = None
          \/ ~Truthy(Field(JSONparse(c.read[1].text)[1], "message")[1])

\* C24: a call with a response outside 2xx whose body cannot be read, is
\* empty, is not JSON, is null or has no truthy message is rejected with the
\* Error of the client whose message is the status line and nothing more; the
\* failure of the read or of the parse is never what the call is rejected with.
C24_ErrorBodyFailuresSwallowed ==
    \A i \in DOMAIN calls :
        LET c == calls[i] IN
        (HttpFailure(c) /\ c.read # None /\ NoMessageToAppend(c)) =>
            /\ c.result.state = "rejected"
            /\ c.result.error.name = "Error"
            /\ c.result.error.message
                  = <<"OPA request failed: ", ToString(c.response[1].status), " ",
                      c.response[1].statusText>>
            /\ c.result.error \notin BodyReadErrors \cup TransportErrors
            /\ c.result.error # [cause |-> <<>>,
                                  message |-> <<"Unexpected token in JSON">>,
                                  name |-> "SyntaxError"]

\* A 500 whose body is the text null, and a 404 whose body is not JSON.
C24_Witness ==
    \E i, j \in DOMAIN calls :
        /\ HttpFailure(calls[i])
        /\ calls[i].read = Some([kind |-> "text", text |-> "null"])
        /\ calls[i].result.state = "rejected"
        /\ calls[i].result.error.message
              = <<"OPA request failed: ", "500", " ", "Internal Server Error">>
        /\ HttpFailure(calls[j])
        /\ calls[j].read = Some([kind |-> "text", text |-> "not json"])
        /\ calls[j].result.state = "rejected"
        /\ calls[j].result.error.name = "Error"
        /\ calls[j].result.error.message
              = <<"OPA request failed: ", "404", " ", "Not Found">>

\* ------------------------------------------------- streamed bodies (C25)
\* C25: fetch is given duplex: 'half' exactly when the body it is given is a
\* byte stream, which is the stream the caller supplied or the compressed
\* stream of the string the caller supplied; with a string body or with no
\* body fetch is given no duplex option.
C25_DuplexIffStream ==
    \A m \in inflight :
        /\ m.init.duplex = (IF m.init.body.type = "stream" THEN <<"half">> ELSE <<>>)
        /\ m.init.body.type = "stream" =>
              \/ m.init.body = m.options.body
              \/ /\ m.options.body.type = "string"
                 /\ m.init.body = [gzip |-> m.options.body.value, type |-> "stream"]
        /\ m.init.body.type # "stream" => m.init.body = m.options.body

\* A stream of the caller handed on where the runtime cannot compress.
C25_Witness ==
    /\ ~hasCS
    /\ \E m \in inflight :
          /\ m.api = "request"
          /\ m.options.body = [bytes |-> "{}", type |-> "stream"]
          /\ m.init.body = m.options.body
          /\ m.init.duplex = <<"half">>

\* ------------------------------------------------------ no timeout (C26)
\* Whether the transport has settled for a call: fetch rejected, or fetch
\* resolved and the read of the body settled.
TransportSettled(c) ==
    /\ c.response # None
    /\ c.response[1].kind = "rejected" \/ c.read # None

\* C26: a call is settled exactly when the transport has settled for it, so
\* it stays pending for as long as the transport does not settle; a settled
\* call keeps its result or its error; and, the transport settling every
\* fetch and body read in the end, every call made settles in the end.
C26_SettlesWithTransportOnly ==
    /\ [](\A i \in DOMAIN calls :
            calls[i].result.state # "pending" <=> TransportSettled(calls[i]))
    /\ [][\A i \in DOMAIN calls :
            calls[i].result.state # "pending" => calls'[i].result = calls[i].result]_vars
    /\ \A i \in 1..MaxCalls :
          [](Len(calls) >= i =>
                <>(Len(calls) >= i /\ calls[i].result.state # "pending"))

\* A call rejected once the read of its response's body failed, and another
\* whose response has arrived and whose body is still being read, pending.
C26_Witness ==
    \E i, j \in DOMAIN calls :
        /\ calls[i].pc = "done" /\ Success2xx(calls[i])
        /\ calls[i].read # None /\ calls[i].read[1].kind = "rejected"
        /\ calls[i].result.state = "rejected"
        /\ calls[j].pc = "text" /\ GotResponse(calls[j]) /\ calls[j].read = None
        /\ calls[j].result.state = "pending"

\* ------------------------------------------------- bare question mark (C27)
QueryStringMethods ==
    { "policy.get", "policy.put", "policy.delete", "data.get", "data.post",
      "data.webhook", "data.put", "data.delete", "query.default", "query.adhoc",
      "compile.partialEval", "health.check", "config.get", "status.get" }

NoQueryStringMethods == { "policy.list", "data.patch", "compile.filter", "health.custom" }

\* Whether the call m sets none of the optional arguments that become query
\* parameters.
NoParameterSet(m) ==
    /\ \A f \in FlagParams : HasArg(m, f[1]) => Arg(m, f[1]) # <<TRUE>>
    /\ HasArg(m, "explain") => Arg(m, "explain") = <<>>
    /\ m.api = "data.get" => Arg(m, "input") = <<>>
    /\ HasArg(m, "excludePlugin") => ExcludedNames(Arg(m, "excludePlugin")) = <<>>

\* The number of tokens tok in the sequence s.
Count(s, tok) == Cardinality({ i \in DOMAIN s : s[i] = tok })

\* C27: the URL of a request of policy.get/put/delete, data.get/post/webhook/
\* put/delete, query.default/adhoc, compile.partialEval, health.check,
\* config.get or status.get has one '?' after the path, and ends with that
\* '?' when the call sets no optional parameter; the URL of a request of
\* policy.list, data.patch, compile.filter or health.custom has no '?'.
C27_BareQuestionMark ==
    \A m \in inflight :
        /\ m.api \in QueryStringMethods \cup NoQueryStringMethods
        /\ m.api \in QueryStringMethods =>
              /\ Count(m.url, "?") = 1
              /\ NoParameterSet(m) <=> m.url[Len(m.url)] = "?"
        /\ m.api \in NoQueryStringMethods => Count(m.url, "?") = 0

\* policy.get('opa/allow') with pretty omitted.
C27_Witness ==
    \E m \in inflight :
        /\ m.api = "policy.get"
        /\ Arg(m, "pretty") = <<>>
        /\ m.url = << "http", ":", "/", "/", "localhost", ":", "8181",
                      "/", "v1", "/", "policies", "/", "opa", "%2F", "allow", "?" >>

\* ------------------------------------------------- path encoding (C28)
\* The character a percent-encoded token of a path segment stands for.
DecodeURIToken(tok) ==
    CASE tok = "%2F" -> "/"
      [] tok = "%3A" -> ":"
      [] tok = "%3F" -> "?"
      [] tok = "%23" -> "#"
      [] tok = "%26" -> "&"
      [] tok = "%3D" -> "="
      [] tok = "%20" -> " "
      [] OTHER -> tok

\* The prefix a method puts before the path or the name it is given.
VerbatimPrefix(api) ==
    CASE api = "data.get" -> <<"/", "v1", "/", "data", "/">>
      [] api = "data.patch" -> <<"/", "v1", "/", "data", "/">>
      [] api = "compile.filter" -> <<"/", "v1", "/", "compile", "/">>
      [] api = "health.custom" -> <<"/", "health", "/">>

\* C28: in the URL of policy.get/put/delete the id is one path segment,
\* percent-encoded: no '/', ':', '?' or '#' of the id is in the URL as such,
\* the URL has the slashes of the base URL and of /v1/policies/ and no other,
\* its one '?' is the one the method appends, and the segment decodes to the
\* id. In the URL of data.get, data.patch, compile.filter and health.custom
\* the path or name stands as given: each '/' of it is one more separator,
\* and a '?' or '#' of it is a '?' or '#' of the URL, so that what follows a
\* '?' of the path is the query string.
C28_EncodingByGroup ==
    \A m \in inflight :
        /\ m.api \in PolicyGroup =>
              LET path == PathOf(m.url)
                  lead == config.baseUrl \o <<"/", "v1", "/", "policies", "/">>
                  seg == SubSeq(path, Len(lead) + 1, Len(path))
              IN /\ path = lead \o seg
                 /\ \A i \in DOMAIN seg : seg[i] \notin {"/", ":", "?", "#"}
                 /\ [i \in DOMAIN seg |-> DecodeURIToken(seg[i])] = Arg(m, "id")
                 /\ Count(m.url, "/") = Count(config.baseUrl, "/") + 3
                 /\ Count(m.url, "?") = 1
                 /\ Count(m.url, "#") = 0
        /\ m.api \notin PolicyGroup =>
              LET given == IF m.api = "health.custom" THEN Arg(m, "name")
                           ELSE Arg(m, "path")
                  lead == config.baseUrl \o VerbatimPrefix(m.api)
              IN /\ SubSeq(m.url, 1, Len(lead) + Len(given)) = lead \o given
                 /\ Count(m.url, "/") = Count(lead, "/") + Count(given, "/")
                 /\ Count(m.url, "#") = Count(given, "#")
                 /\ Count(m.url, "?")
                       = Count(given, "?") + (IF m.api = "data.get" THEN 1 ELSE 0)
                 /\ PathOf(m.url) = lead \o UpToFirst(given, "?")

\* policy.delete('a?b') and data.get('a?b'): the first addresses the policy
\* a?b, the second the document a with the query string b?.
C28_Witness ==
    \E m1, m2 \in inflight :
        /\ m1.api = "policy.delete"
        /\ m1.url = config.baseUrl \o
              <<"/", "v1", "/", "policies", "/", "a", "%3F", "b", "?">>
        /\ m2.api = "data.get"
        /\ m2.url = config.baseUrl \o <<"/", "v1", "/", "data", "/", "a", "?", "b", "?">>
        /\ PathOf(m2.url) = config.baseUrl \o <<"/", "v1", "/", "data", "/", "a">>

\* ------------------------------------------------- letter case (C29)
\* The spellings the layers of the request m give to the header named n.
Spellings(m, n) ==
    { k \in { config.headers[i][1] : i \in DOMAIN config.headers }
            \cup { BuiltIn[i][1] : i \in DOMAIN BuiltIn }
            \cup { m.options.headers[i][1] : i \in DOMAIN m.options.headers } :
        Lower(k) = n }

\* C29: when the layers of a request spell the name of a header in more than
\* one letter case, the request carries for that header the one value of the
\* highest-precedence layer that names it, and a body is compressed
\* according to that value of Content-Type: a non-empty string body is
\* replaced by its gzip stream exactly when that value is application/json
\* or application/json-patch+json and CompressionStream exists.
C29_PrecedenceIgnoresLetterCase ==
    [][\A m \in inflight' \ inflight : \A n \in HeaderNames :
        Cardinality(Spellings(m, n)) > 1 =>
            /\ n # "content-encoding" =>
                  HeadersGet(m.init.headers, n) = LaterWinsValue(m, n)
            /\ n = "content-type" =>
                  (m.init.body.type = "stream" <=>
                      /\ m.options.body.type = "string" /\ m.options.body.value # ""
                      /\ LaterWinsValue(m, n) \in { <<"application/json">>,
                                                    <<"application/json-patch+json">> }
                      /\ hasCS)]_vars
====
